---- MODULE Spec2Model ----
(***************************************************************************)
(* Model of image_sender.py: nearest-colour quantization into the fixed    *)
(* 8-colour palette, the packet builder (magic, width, height, one byte    *)
(* per pixel) and the load -> build -> send flow of main.                  *)
(*                                                                         *)
(* Bytes objects are sequences of integers 0..255.  A Python tuple         *)
(* (R, G, B) is the sequence <<R, G, B>>.  Python's None is the empty      *)
(* sequence where an optional integer <<d>> is held.                       *)
(***************************************************************************)
EXTENDS Integers, Sequences, FiniteSets, TLC

VARIABLES
    q_rgb,          \* _quantize_color_to_palette_3bit: the argument rgb
    q_ret,          \* its return value, <<>> before the call returned
    b_pc,           \* build_image_packet: position in the function body
    magic,          \* build_image_packet: argument magic
    width,          \* build_image_packet: argument width
    height,         \* build_image_packet: argument height
    pixel_indices,  \* build_image_packet: argument pixel_indices
    header,         \* build_image_packet: local bytearray header
    pixels_bytes,   \* build_image_packet: local pixels_bytes
    b_ret,          \* build_image_packet: the returned bytes
    b_exc,          \* build_image_packet: the exception raised, "" if none
    m_pc,           \* main / send_packet_over_serial: position
    args,           \* main: parsed arguments [width, height]
    loaded,         \* main: what load_and_convert_to_3bit_indices returned
    packet,         \* main: the packet build_image_packet returned
    ser_state,      \* the serial port: "unopened", "open" or "closed"
    ser_writes,     \* the buffers passed to ser.write, in call order
    ser_flushes,    \* number of ser.flush calls
    m_exc,          \* the exception main ended with, "" if none
    calls           \* how often main called load, build and send

vars == <<q_rgb, q_ret, b_pc, magic, width, height, pixel_indices, header,
          pixels_bytes, b_ret, b_exc, m_pc, args, loaded, packet, ser_state,
          ser_writes, ser_flushes, m_exc, calls>>

q_vars == <<q_rgb, q_ret>>
b_vars == <<b_pc, magic, width, height, pixel_indices, header, pixels_bytes,
            b_ret, b_exc>>
m_vars == <<m_pc, args, loaded, packet, ser_state, ser_writes, ser_flushes,
            m_exc, calls>>

(***************************************************************************)
(* Bounds of the model.                                                    *)
(***************************************************************************)
\* sampled channel values lie within ChanMargin of 0, of the 127/128 midpoint
\* and of 255
ChanMargin == 2
\* longest pixel_indices list handed to build_image_packet directly
MaxLen == 3
\* largest in-range width/height tried with every pixel_indices list
MaxDim == 3
\* largest width/height argument of main whose images are all enumerated
MaxArg == 2

None == <<>>
NoBytes == <<>>

(***************************************************************************)
(* Palette and quantization                                                *)
(***************************************************************************)
PALETTE_8_COLORS ==
    << <<0, 0, 0>>,       \* 0
       <<0, 0, 255>>,     \* 1
       <<0, 255, 0>>,     \* 2
       <<0, 255, 255>>,   \* 3
       <<255, 0, 0>>,     \* 4
       <<255, 0, 255>>,   \* 5
       <<255, 255, 0>>,   \* 6
       <<255, 255, 255>> >>  \* 7

\* enumerate(PALETTE_8_COLORS) yields (idx, PALETTE_8_COLORS[idx]), idx from 0
PaletteAt(idx) == PALETTE_8_COLORS[idx + 1]

color_distance_sq_no_blue(c1, c2) ==
    LET dr == c1[1] - c2[1]
        dg == c1[2] - c2[2]
    IN  dr * dr + dg * dg

color_distance_sq(c1, c2) ==
    LET dr == c1[1] - c2[1]
        dg == c1[2] - c2[2]
        db == c1[3] - c2[3]
    IN  dr * dr + dg * dg + db * db

\* a scan that starts from best_dist = 0 instead of None
is_better_from_zero(dist, best_dist) ==
    dist < (IF best_dist = None THEN 0 ELSE best_dist[1])

\* line 80: best_dist is None or dist < best_dist
is_better(dist, best_dist) ==
    best_dist = None \/ dist < best_dist[1]

\* the for loop of lines 78-82, from palette position idx on
RECURSIVE scan_palette(_, _, _, _)
scan_palette(rgb, idx, best_index, best_dist) ==
    IF idx >= Len(PALETTE_8_COLORS)
    THEN best_index
    ELSE LET dist == color_distance_sq(rgb, PaletteAt(idx))
         IN  IF is_better(dist, best_dist)
             THEN scan_palette(rgb, idx + 1, idx, <<dist>>)
             ELSE scan_palette(rgb, idx + 1, best_index, best_dist)

\* a scan that skips palette entry 0
quantize_skip_first(rgb) == scan_palette(rgb, 1, 0, None)

quantize_color_to_palette_3bit(rgb) == scan_palette(rgb, 0, 0, None)

(***************************************************************************)
(* Packing and integer encoding                                            *)
(***************************************************************************)
\* bit i of the two's complement representation of the Python int x
\* (\div rounds towards minus infinity, as Python's >> does)
BitOf(x, i) == (x \div (2 ^ i)) % 2

\* Python's x & y for y >= 0 that fits in nbits bits
BitAnd(x, y, nbits) ==
    LET RECURSIVE acc(_)
        acc(i) == IF i >= nbits THEN 0
                  ELSE BitOf(x, i) * BitOf(y, i) * (2 ^ i) + acc(i + 1)
    IN  acc(0)

mask_index_4bit(idx) == BitAnd(idx, 15, 4)

\* line 144: idx & 0x07
mask_index(idx) == BitAnd(idx, 7, 3)

pack_pixels_1byte_per_pixel(indices) ==
    [k \in 1..Len(indices) |-> mask_index(indices[k])]

to_bytes_overflows_signed(n) == n < -32768 \/ n >= 32768

\* int.to_bytes(2, byteorder="big", signed=False) raises OverflowError
to_bytes_overflows(n) == n < 0 \/ n >= 65536

to_bytes_2_little(n) == <<n % 256, (n \div 256) % 256>>

\* int.to_bytes(2, byteorder="big", signed=False) when it does not raise
to_bytes_2_big(n) == <<(n \div 256) % 256, n % 256>>

DEFAULT_MAGIC == <<73, 77, 71, 51>>   \* b"IMG3"


(***************************************************************************)
(* Input sets                                                              *)
(***************************************************************************)
ChannelValues ==
    (0..ChanMargin) \cup ((127 - ChanMargin)..(128 + ChanMargin))
        \cup ((255 - ChanMargin)..255) \cup {10, 20, 250}

\* pixel index values: in range, above 7 and negative
IndexValues == {-8, -1, 0, 3, 4, 5, 7, 9}

SeqsUpTo(S, n) == UNION {[1..k -> S] : k \in 0..n}

Magics == {DEFAULT_MAGIC, <<73, 77, 71>>, <<73, 77, 71, 51, 33>>,
           <<0, 255, 128, 7>>}

Dims == (-1..(MaxDim + 1)) \cup {258, 65535, 65536}

BuildInputs ==
    [magic : {DEFAULT_MAGIC}, width : 0..MaxDim, height : 0..MaxDim,
     pixel_indices : SeqsUpTo(IndexValues, MaxLen)]
    \cup
    [magic : Magics, width : Dims, height : Dims,
     pixel_indices : SeqsUpTo(IndexValues, 1)]

(***************************************************************************)
(* _quantize_color_to_palette_3bit as one call                             *)
(***************************************************************************)
QuantizeCall ==
    /\ q_ret = None
    /\ q_ret' = <<quantize_color_to_palette_3bit(q_rgb)>>
    /\ UNCHANGED <<q_rgb, b_vars, m_vars>>

(***************************************************************************)
(* build_image_packet, statement by statement                              *)
(***************************************************************************)
BuildRaise(exc) ==
    /\ b_pc' = "raised"
    /\ b_exc' = exc

magic_length_too_short(m) == Len(m) < 4

\* line 165: len(magic) != 4
magic_length_invalid(m) == Len(m) # 4

\* lines 165-166
BuildCheckMagic ==
    /\ UNCHANGED <<q_vars, m_vars>>
    /\ b_pc = "check_magic"
    /\ IF magic_length_invalid(magic)
       THEN BuildRaise("ValueError")
       ELSE b_pc' = "header_magic" /\ UNCHANGED b_exc
    /\ UNCHANGED <<magic, width, height, pixel_indices, header, pixels_bytes,
                   b_ret>>

\* lines 168-169
BuildHeaderMagic ==
    /\ UNCHANGED <<q_vars, m_vars>>
    /\ b_pc = "header_magic"
    /\ header' = NoBytes \o magic
    /\ b_pc' = "header_width"
    /\ UNCHANGED <<magic, width, height, pixel_indices, pixels_bytes, b_ret,
                   b_exc>>

\* line 170
BuildHeaderWidth ==
    /\ UNCHANGED <<q_vars, m_vars>>
    /\ b_pc = "header_width"
    /\ IF to_bytes_overflows(width)
       THEN BuildRaise("OverflowError") /\ UNCHANGED header
       ELSE /\ header' = header \o to_bytes_2_big(width)
            /\ b_pc' = "header_height"
            /\ UNCHANGED b_exc
    /\ UNCHANGED <<magic, width, height, pixel_indices, pixels_bytes, b_ret>>

\* line 171
BuildHeaderHeight ==
    /\ UNCHANGED <<q_vars, m_vars>>
    /\ b_pc = "header_height"
    /\ IF to_bytes_overflows(height)
       THEN BuildRaise("OverflowError") /\ UNCHANGED header
       ELSE /\ header' = header \o to_bytes_2_big(height)
            /\ b_pc' = "pack"
            /\ UNCHANGED b_exc
    /\ UNCHANGED <<magic, width, height, pixel_indices, pixels_bytes, b_ret>>

\* line 173
BuildPackPixels ==
    /\ UNCHANGED <<q_vars, m_vars>>
    /\ b_pc = "pack"
    /\ pixels_bytes' = pack_pixels_1byte_per_pixel(pixel_indices)
    /\ b_pc' = "return"
    /\ UNCHANGED <<magic, width, height, pixel_indices, header, b_ret, b_exc>>

\* line 175
BuildReturn ==
    /\ UNCHANGED <<q_vars, m_vars>>
    /\ b_pc = "return"
    /\ b_ret' = header \o pixels_bytes
    /\ b_pc' = "returned"
    /\ UNCHANGED <<magic, width, height, pixel_indices, header, pixels_bytes,
                   b_exc>>

(***************************************************************************)
(* Idle values of the parts a specification does not exercise              *)
(***************************************************************************)
QuantizeIdle == q_rgb = <<0, 0, 0>> /\ q_ret = None

BuildIdle ==
    /\ b_pc = "idle"
    /\ magic = NoBytes /\ width = 0 /\ height = 0 /\ pixel_indices = <<>>
    /\ header = NoBytes /\ pixels_bytes = NoBytes
    /\ b_ret = NoBytes /\ b_exc = ""

MainIdle ==
    /\ m_pc = "idle"
    /\ args = [width |-> 0, height |-> 0]
    /\ loaded = None /\ packet = NoBytes
    /\ ser_state = "unopened" /\ ser_writes = <<>> /\ ser_flushes = 0
    /\ m_exc = ""
    /\ calls = [load |-> 0, build |-> 0, send |-> 0]

(***************************************************************************)
(* Specification of the quantizer on its own                               *)
(***************************************************************************)
\* rgb has at least two channels among ChannelValues; the third channel
\* takes every 8-bit value
InitQuantize ==
    /\ \E free \in 1..3 :
          \E v \in 0..255, s \in ChannelValues, t \in ChannelValues :
             q_rgb = CASE free = 1 -> <<v, s, t>>
                       [] free = 2 -> <<s, v, t>>
                       [] free = 3 -> <<s, t, v>>
    /\ q_ret = None
    /\ BuildIdle
    /\ MainIdle

NextQuantize == QuantizeCall

SpecQuantize == InitQuantize /\ [][NextQuantize]_vars

(***************************************************************************)
(* Specification of the packet builder on its own                          *)
(***************************************************************************)
InitPacket ==
    /\ QuantizeIdle
    /\ \E in \in BuildInputs :
          /\ magic = in.magic
          /\ width = in.width
          /\ height = in.height
          /\ pixel_indices = in.pixel_indices
    /\ b_pc = "check_magic"
    /\ header = NoBytes /\ pixels_bytes = NoBytes
    /\ b_ret = NoBytes /\ b_exc = ""
    /\ MainIdle

NextPacket ==
    \/ BuildCheckMagic
    \/ BuildHeaderMagic
    \/ BuildHeaderWidth
    \/ BuildHeaderHeight
    \/ BuildPackPixels
    \/ BuildReturn

SpecPacket == InitPacket /\ [][NextPacket]_vars


(***************************************************************************)
(* load_and_convert_to_3bit_indices                                        *)
(***************************************************************************)
\* colours of the decoded, resized image
SampleColors == {<<255, 0, 0>>, <<10, 250, 128>>, <<127, 127, 127>>}

\* the resized image, row by row; every image up to MaxArg x MaxArg and one
\* single-colour image above that
Images(w, h) ==
    IF w * h <= MaxArg * MaxArg
    THEN [1..(w * h) -> SampleColors]
    ELSE {[k \in 1..(w * h) |-> <<255, 0, 0>>]}

\* img.getpixel((x, y)) of an image w pixels wide
getpixel(img, w, x, y) == img[y * w + x + 1]

\* lines 117-124: for y in range(height): for x in range(width): append
encode_pixels(img, w, h) ==
    [k \in 1..(w * h) |->
        quantize_color_to_palette_3bit(
            getpixel(img, w, (k - 1) % w, (k - 1) \div w))]

LoadErrors == {"FileNotFoundError", "ValueError"}

(***************************************************************************)
(* main and send_packet_over_serial                                        *)
(***************************************************************************)
\* lines 269-274: Image.open / resize raise, or the index list is returned
MainLoad ==
    /\ m_pc = "load"
    /\ calls' = [calls EXCEPT !.load = @ + 1]
    /\ \/ /\ \E e \in LoadErrors : m_exc' = e
          /\ m_pc' = "exit"
          /\ UNCHANGED loaded
       \/ /\ \E img \in Images(args.width, args.height) :
                loaded' = <<[pixel_indices |->
                                encode_pixels(img, args.width, args.height),
                             width |-> args.width,
                             height |-> args.height]>>
          /\ m_pc' = "build"
          /\ UNCHANGED m_exc
    /\ UNCHANGED <<args, packet, ser_state, ser_writes, ser_flushes>>
    /\ UNCHANGED <<q_vars, b_vars>>

\* line 278: the call of build_image_packet with the default magic
MainCallBuild ==
    /\ m_pc = "build"
    /\ calls' = [calls EXCEPT !.build = @ + 1]
    /\ pixel_indices' = loaded[1].pixel_indices
    /\ width' = loaded[1].width
    /\ height' = loaded[1].height
    /\ magic' = DEFAULT_MAGIC
    /\ b_pc' = "check_magic"
    /\ header' = NoBytes /\ pixels_bytes' = NoBytes
    /\ b_ret' = NoBytes /\ b_exc' = ""
    /\ m_pc' = "in_build"
    /\ UNCHANGED <<args, loaded, packet, ser_state, ser_writes, ser_flushes,
                   m_exc>>
    /\ UNCHANGED q_vars

\* line 278: build_image_packet returned
MainBuildReturned ==
    /\ m_pc = "in_build"
    /\ b_pc = "returned"
    /\ packet' = b_ret
    /\ m_pc' = "send"
    /\ UNCHANGED <<args, loaded, ser_state, ser_writes, ser_flushes, m_exc,
                   calls>>
    /\ UNCHANGED <<q_vars, b_vars>>

\* line 278: build_image_packet raised; main does not catch it
MainBuildRaised ==
    /\ m_pc = "in_build"
    /\ b_pc = "raised"
    /\ m_exc' = b_exc
    /\ m_pc' = "exit"
    /\ UNCHANGED <<args, loaded, packet, ser_state, ser_writes, ser_flushes,
                   calls>>
    /\ UNCHANGED <<q_vars, b_vars>>

\* lines 281, 200-201: send_packet_over_serial is called and opens the port
SendOpen ==
    /\ m_pc = "send"
    /\ calls' = [calls EXCEPT !.send = @ + 1]
    /\ \/ ser_state' = "open" /\ m_pc' = "write"
       \/ m_pc' = "except" /\ UNCHANGED ser_state
    /\ UNCHANGED <<args, loaded, packet, ser_writes, ser_flushes, m_exc>>
    /\ UNCHANGED <<q_vars, b_vars>>

\* line 202: ser.write(packet); on an exception the with block closes the port
SendWrite ==
    /\ m_pc = "write"
    /\ ser_writes' = Append(ser_writes, packet)
    /\ \/ m_pc' = "flush" /\ UNCHANGED ser_state
       \/ m_pc' = "except" /\ ser_state' = "closed"
    /\ UNCHANGED <<args, loaded, packet, ser_flushes, m_exc, calls>>
    /\ UNCHANGED <<q_vars, b_vars>>

\* line 203: ser.flush()
SendFlush ==
    /\ m_pc = "flush"
    /\ ser_flushes' = ser_flushes + 1
    /\ \/ m_pc' = "close" /\ UNCHANGED ser_state
       \/ m_pc' = "except" /\ ser_state' = "closed"
    /\ UNCHANGED <<args, loaded, packet, ser_writes, m_exc, calls>>
    /\ UNCHANGED <<q_vars, b_vars>>

\* line 201: the with block ends and closes the port
SendClose ==
    /\ m_pc = "close"
    /\ ser_state' = "closed"
    /\ m_pc' = "sent"
    /\ UNCHANGED <<args, loaded, packet, ser_writes, ser_flushes, m_exc,
                   calls>>
    /\ UNCHANGED <<q_vars, b_vars>>

\* an except clause that calls send_packet_over_serial again
SendExceptRetry ==
    /\ m_pc = "except"
    /\ m_pc' = "send"
    /\ UNCHANGED <<args, loaded, packet, ser_state, ser_writes, ser_flushes,
                   m_exc, calls>>
    /\ UNCHANGED <<q_vars, b_vars>>

\* lines 206-208: except serial.SerialException: print, raise
SendExcept ==
    /\ m_pc = "except"
    /\ m_exc' = "SerialException"
    /\ m_pc' = "exit"
    /\ UNCHANGED <<args, loaded, packet, ser_state, ser_writes, ser_flushes,
                   calls>>
    /\ UNCHANGED <<q_vars, b_vars>>

\* line 282: send_packet_over_serial returned
MainDone ==
    /\ m_pc = "sent"
    /\ m_pc' = "done"
    /\ UNCHANGED <<args, loaded, packet, ser_state, ser_writes, ser_flushes,
                   m_exc, calls>>
    /\ UNCHANGED <<q_vars, b_vars>>

(***************************************************************************)
(* Specification of one run of main                                        *)
(***************************************************************************)
\* every small pair, and 65536 beside 0 and 1
ArgPairs ==
    ((0..MaxArg) \X (0..MaxArg))
    \cup {<<65536, 0>>, <<0, 65536>>, <<65536, 1>>, <<1, 65536>>}

Init ==
    /\ QuantizeIdle
    /\ BuildIdle
    /\ m_pc = "load"
    /\ \E p \in ArgPairs : args = [width |-> p[1], height |-> p[2]]
    /\ loaded = None /\ packet = NoBytes
    /\ ser_state = "unopened" /\ ser_writes = <<>> /\ ser_flushes = 0
    /\ m_exc = ""
    /\ calls = [load |-> 0, build |-> 0, send |-> 0]

Next ==
    \/ MainLoad
    \/ MainCallBuild
    \/ BuildCheckMagic
    \/ BuildHeaderMagic
    \/ BuildHeaderWidth
    \/ BuildHeaderHeight
    \/ BuildPackPixels
    \/ BuildReturn
    \/ MainBuildReturned
    \/ MainBuildRaised
    \/ SendOpen
    \/ SendWrite
    \/ SendFlush
    \/ SendClose
    \/ SendExcept
    \/ MainDone

Spec == Init /\ [][Next]_vars


(***************************************************************************)
(* Properties                                                              *)
(***************************************************************************)
BuildReturned == b_pc = "returned"

BuildRaised == b_pc = "raised"

\* w * h = n, for w >= 0, without forming the product
AreaIs(w, h, n) == IF w = 0 THEN n = 0 ELSE n % w = 0 /\ n \div w = h

FitsU16(n) == n >= 0 /\ n <= 65535

\* an unsigned big-endian 16-bit integer read from two bytes
DecodeU16(hi, lo) == hi * 256 + lo

IsByte(v) == v \in 0..255

\* squared distance from the quantized colour to palette entry j
DistTo(j) == color_distance_sq(q_rgb, PaletteAt(j))

PaletteIndices == 0..(Len(PALETTE_8_COLORS) - 1)

\* C1: build_image_packet returns no packet when len(pixel_indices) differs
\* from width*height: a returned packet comes from a list of width*height
\* indices, and the dimensions its header declares agree with its payload
\* length.
C1_MismatchIsRejected ==
    BuildReturned =>
        /\ AreaIs(width, height, Len(pixel_indices))
        /\ AreaIs(DecodeU16(b_ret[5], b_ret[6]), DecodeU16(b_ret[7], b_ret[8]),
                  Len(b_ret) - 8)

\* C2: every packet build_image_packet returns is exactly 8 + width*height
\* bytes long.
C2_LengthIsEightPlusArea ==
    BuildReturned => AreaIs(width, height, Len(b_ret) - 8)

\* C3 as stated: in a returned packet bytes [0:4] are magic, bytes [4:6] and
\* [6:8] are width and height as unsigned big-endian 16-bit integers, and
\* bytes [8:] are the pixel indices themselves, in input order, one byte each.
C3_PayloadIsTheIndices ==
    BuildReturned =>
        /\ SubSeq(b_ret, 1, 4) = magic
        /\ DecodeU16(b_ret[5], b_ret[6]) = width
        /\ DecodeU16(b_ret[7], b_ret[8]) = height
        /\ Len(b_ret) = 8 + Len(pixel_indices)
        /\ \A k \in 1..Len(pixel_indices) : b_ret[8 + k] = pixel_indices[k]

\* C3 as amended: in a returned packet bytes [0:4] are magic, bytes [4:6] and
\* [6:8] are width and height as unsigned big-endian 16-bit integers, and
\* bytes [8:] are, in input order and one byte each, the pixel indices
\* reduced to their low 3 bits: the index itself when it is in 0..7.
C3_PacketLayout ==
    BuildReturned =>
        /\ SubSeq(b_ret, 1, 4) = magic
        /\ \A i \in 5..8 : IsByte(b_ret[i])
        /\ DecodeU16(b_ret[5], b_ret[6]) = width
        /\ DecodeU16(b_ret[7], b_ret[8]) = height
        /\ Len(b_ret) = 8 + Len(pixel_indices)
        /\ \A k \in 1..Len(pixel_indices) :
              /\ b_ret[8 + k] \in 0..7
              /\ (pixel_indices[k] - b_ret[8 + k]) % 8 = 0
              /\ pixel_indices[k] \in 0..7 => b_ret[8 + k] = pixel_indices[k]

C3_Witness ==
    /\ BuildReturned
    /\ pixel_indices = <<3, 4, 5>> /\ width = 1 /\ height = 3
    /\ magic = <<73, 77, 71, 51>>
    /\ b_ret = <<73, 77, 71, 51, 0, 1, 0, 3, 3, 4, 5>>

\* C4: once the pixels are packed, payload byte k is indices[k] & 0x07 for
\* every integer index, also above 7 and negative: it lies in 0..7 (upper 5
\* bits zero), differs from the index by a multiple of 8, and is the index
\* unchanged when the index is in 0..7; the returned packet carries these
\* bytes from offset 8.
C4_PayloadMasked ==
    /\ b_pc \in {"return", "returned"} =>
          /\ Len(pixels_bytes) = Len(pixel_indices)
          /\ \A k \in 1..Len(pixel_indices) :
                /\ pixels_bytes[k] >= 0 /\ pixels_bytes[k] < 8
                /\ (pixel_indices[k] - pixels_bytes[k]) % 8 = 0
                /\ pixel_indices[k] \in 0..7
                      => pixels_bytes[k] = pixel_indices[k]
    /\ BuildReturned => SubSeq(b_ret, 9, Len(b_ret)) = pixels_bytes

C4_Witness ==
    /\ BuildReturned
    /\ pixel_indices = <<9, -1, 7>>
    /\ SubSeq(b_ret, 9, Len(b_ret)) = <<1, 7, 7>>

\* C5: the index quantization returns is in 0..7, its palette colour is at
\* minimum squared distance from the input among all 8 entries, and no lower
\* index attains that minimum.
C5_NearestLowestIndex ==
    q_ret # None =>
        /\ q_ret[1] \in PaletteIndices
        /\ \A j \in PaletteIndices : DistTo(q_ret[1]) <= DistTo(j)
        /\ \A j \in PaletteIndices : j < q_ret[1] => DistTo(j) > DistTo(q_ret[1])

C5_Witness == q_rgb = <<250, 10, 20>> /\ q_ret = <<4>>

\* C6: quantizing palette colour i returns i, for each of the 8 colours.
C6_PaletteRoundTrip ==
    \A i \in PaletteIndices :
        (q_ret # None /\ q_rgb = PaletteAt(i)) => q_ret = <<i>>

C6_Witness == q_rgb = <<255, 0, 255>> /\ q_ret = <<5>>

\* C7: build_image_packet gets past the width and height fields only when
\* both fit an unsigned 16-bit field; when one does not, the call ends
\* raised with no bytes returned, with the range error (OverflowError)
\* whenever the magic is 4 bytes long; and the range error is raised only
\* when width or height is outside 0..65535.
C7_DimensionRange ==
    /\ ~(FitsU16(width) /\ FitsU16(height)) =>
          /\ b_pc \in {"check_magic", "header_magic", "header_width",
                       "header_height", "raised"}
          /\ b_ret = NoBytes
          /\ BuildRaised => b_exc \in {"ValueError", "OverflowError"}
          /\ BuildRaised /\ Len(magic) = 4 => b_exc = "OverflowError"
    /\ ~FitsU16(width) => b_pc # "header_height"
    /\ b_exc = "OverflowError" =>
          BuildRaised /\ ~(FitsU16(width) /\ FitsU16(height))

C7_Witness ==
    /\ BuildRaised /\ b_exc = "OverflowError"
    /\ width = 65535 /\ height = 65536 /\ b_ret = NoBytes

\* C8: when len(magic) is not 4 the call leaves its first statement only by
\* raising ValueError, with no header byte, no payload byte and no returned
\* byte; and ValueError is raised only when len(magic) is not 4.
C8_MagicLength ==
    /\ (Len(magic) # 4 /\ b_pc \notin {"idle", "check_magic"}) =>
          /\ BuildRaised /\ b_exc = "ValueError"
          /\ header = NoBytes /\ pixels_bytes = NoBytes /\ b_ret = NoBytes
    /\ b_exc = "ValueError" => BuildRaised /\ Len(magic) # 4

C8_Witness ==
    /\ BuildRaised /\ b_exc = "ValueError"
    /\ magic = <<73, 77, 71>> /\ header = NoBytes /\ b_ret = NoBytes

\* the scan of lines 78-82 with <= in place of <: the last minimum is kept
RECURSIVE scan_keep_last(_, _, _, _)
scan_keep_last(rgb, idx, best_index, best_dist) ==
    IF idx >= Len(PALETTE_8_COLORS)
    THEN best_index
    ELSE LET dist == color_distance_sq(rgb, PaletteAt(idx))
         IN  IF best_dist = None \/ dist <= best_dist[1]
             THEN scan_keep_last(rgb, idx + 1, idx, <<dist>>)
             ELSE scan_keep_last(rgb, idx + 1, best_index, best_dist)

ThresholdBit(c) == IF c >= 128 THEN 1 ELSE 0

\* C10: for every 8-bit RGB triple exactly one palette index attains the
\* minimum squared distance; the index returned is also what a scan keeping
\* the last minimum returns, and equals 4*[R>=128] + 2*[G>=128] + [B>=128].
C10_UniqueNearest ==
    q_ret # None =>
        /\ Cardinality({i \in PaletteIndices :
                          \A j \in PaletteIndices : DistTo(i) <= DistTo(j)}) = 1
        /\ q_ret[1] = scan_keep_last(q_rgb, 0, 0, None)
        /\ q_ret[1] = 4 * ThresholdBit(q_rgb[1]) + 2 * ThresholdBit(q_rgb[2])
                        + ThresholdBit(q_rgb[3])

C10_Witness == q_rgb = <<127, 128, 127>> /\ q_ret = <<2>>

MainEnded == m_pc \in {"exit", "done"}

\* C9: in one run of main, load, build and send are each called at most
\* once and in that order, build only after load returned and send only
\* after build returned its packet; the port sees at most one write, of the
\* whole packet, and at most one flush, after the write; a failed load or
\* build leaves the transport untouched; a run that ends normally made
\* exactly one write and one flush; a transport failure ends the run with
\* SerialException; and an ended run takes no further step.
C9_LoadBuildSendOnce ==
    /\ calls.load <= 1 /\ calls.build <= 1 /\ calls.send <= 1
    /\ calls.build = 1 => calls.load = 1 /\ loaded # None
    /\ calls.send = 1 =>
          calls.build = 1 /\ BuildReturned /\ packet = b_ret /\ packet # NoBytes
    /\ Len(ser_writes) <= 1 /\ ser_flushes <= 1
    /\ ser_writes # <<>> => calls.send = 1 /\ ser_writes[1] = packet
    /\ ser_flushes = 1 => Len(ser_writes) = 1
    /\ (MainEnded /\ (loaded = None \/ BuildRaised)) =>
          /\ m_pc = "exit" /\ m_exc # ""
          /\ calls.send = 0 /\ ser_state = "unopened"
          /\ ser_writes = <<>> /\ ser_flushes = 0
    /\ m_pc = "done" =>
          /\ calls = [load |-> 1, build |-> 1, send |-> 1]
          /\ ser_writes = <<packet>> /\ ser_flushes = 1
          /\ ser_state = "closed" /\ m_exc = ""
    /\ (m_pc = "exit" /\ calls.send = 1) => m_exc = "SerialException"
    /\ m_pc = "except" => calls.send = 1 /\ m_exc = ""
    /\ MainEnded => ~ENABLED Next

C9_Witness ==
    /\ m_pc = "exit" /\ m_exc = "SerialException"
    /\ calls = [load |-> 1, build |-> 1, send |-> 1]
    /\ ser_writes = <<packet>> /\ ser_flushes = 1
    /\ Len(packet) = 8 + 4

====
